---- MODULE Spec2Model ----
(***************************************************************************)
(* HabitTracker: the SQLite store of habits and check-offs (DBManager.py), *)
(* the habit operations of the menu (HabitManager.py, main.py) and the     *)
(* streak / performance analytics computed from the check-off log.         *)
(*                                                                         *)
(* Calendar dates are day numbers; day 0 is a Monday, so the weekday of    *)
(* day d is d % 7 (0 = Monday, as date.weekday()) and two days lie in the  *)
(* same ISO week iff they have the same d \div 7.  Consecutive ISO         *)
(* (year, week) pairs are consecutive values of d \div 7.  Where months    *)
(* and ISO years matter, day 0 is Monday 2023-09-25, so that day 6 is      *)
(* Sunday 2023-10-01 and day 98 is Monday 2024-01-01.                      *)
(*                                                                         *)
(* A TEXT column holding a date is a record [day, sfx]: the ten characters *)
(* "YYYY-MM-DD" of day `day` followed by a suffix: 0 = nothing,            *)
(* 1 = a time part "T..", 2 = other characters (not a date).               *)
(***************************************************************************)
EXTENDS Integers, Sequences, FiniteSets, TLC

\* db: the store; today: date.today(); import_date: the date the modules were
\* imported; running: main.run is in its menu loop; view: the table or chart the
\* Analyze menu has on the screen
VARIABLES db, today, import_date, running, view

vars == <<db, today, import_date, running, view>>

-----------------------------------------------------------------------------
(* Bounds of the model *)

FirstDay == 6
MaxDay == 9
MaxHabitId == 2
MaxCheckoffs == 4
NumPredefined == 1
MaxStoreHabits == 1
MaxStoreCheckoffs == 3

None == "None"

\* no chart or table of the Analyze menu is on the screen
NoView == [op |-> "none"]

-----------------------------------------------------------------------------
(* Dates and their text form *)

isoformat(d) == [day |-> d, sfx |-> 0]

strftime_Ymd(d) == [day |-> d, sfx |-> 0]

\* str.split("T")[0]: drops a time part
split_T(t) == IF t.sfx = 1 THEN [day |-> t.day, sfx |-> 0] ELSE t

\* date.fromisoformat raises ValueError on anything but "YYYY-MM-DD"
parses(t) == t.sfx = 0

fromisoformat(t) == t.day

\* comparison of TEXT values (sqlite BINARY collation)
TextLT(a, b) == a.day < b.day \/ (a.day = b.day /\ a.sfx < b.sfx)

TextLE(a, b) == a = b \/ TextLT(a, b)

weekday(d) == d % 7

\* (year, week) of date.isocalendar(), as one week number
isoweek(d) == d \div 7

Max2(a, b) == IF a >= b THEN a ELSE b

\* the first days of the months 2023-09, 2023-10, ..., 2024-04
first_days == <<-24, 6, 37, 67, 98, 129, 158, 189>>

\* strftime("%Y-%m"): the month of day d, 1 = "2023-09", 2 = "2023-10", ...
strftime_Ym(d) ==
    CHOOSE m \in 1..(Len(first_days) - 1) : first_days[m] <= d /\ d < first_days[m + 1]

\* date.replace(day=1)
replace_day_1(d) == first_days[strftime_Ym(d)]

\* date.isocalendar()[:2]: 2023 has 52 ISO weeks, day 0 lies in 2023-W39
isocalendar(d) ==
    IF d \div 7 <= 13 THEN <<2023, 39 + (d \div 7)>> ELSE <<2024, (d \div 7) - 13>>

\* datetime.fromisocalendar(year, week, 1).date()
fromisocalendar_monday(period) ==
    IF period[1] = 2023 THEN 7 * (period[2] - 39) ELSE 7 * (period[2] + 13)

\* variant: the weeks are compared without their years
TupleGE_week_only(a, b) == a[2] >= b[2]

\* comparison of tuples (year, week)
TupleGE(a, b) == a[1] > b[1] \/ (a[1] = b[1] /\ a[2] >= b[2])

-----------------------------------------------------------------------------
(* Habit.__init__: creation_date defaults to the date the module was       *)
(* imported (a default argument is evaluated once)                         *)

Habit(name, description, recurrence, creation_date) ==
    [name |-> name, description |-> description, recurrence |-> recurrence,
     creation_date |-> creation_date, completion_date |-> None, status |-> "active"]

-----------------------------------------------------------------------------
(* DatabaseManager: the tables and the statements run on them.  d is the   *)
(* database: tables habit and checkoff in rowid order and the              *)
(* AUTOINCREMENT counter of table habit in sqlite_sequence.  The id of a   *)
(* checkoff row is read by no statement and is left out.                   *)

EmptyDB == [habit |-> <<>>, checkoff |-> <<>>, habit_seq |-> 0]

\* variant: the new row is read before the rows saved earlier
save_habit_in_front(d, h) ==
    [d EXCEPT !.habit = <<[id |-> d.habit_seq + 1,
                           name |-> h.name,
                           description |-> h.description,
                           recurrence |-> h.recurrence,
                           creation_date |-> isoformat(h.creation_date),
                           completion_date |-> h.completion_date,
                           status |-> h.status]>> \o @,
              !.habit_seq = @ + 1]

save_habit(d, h) ==
    [d EXCEPT !.habit = Append(@, [id |-> d.habit_seq + 1,
                                   name |-> h.name,
                                   description |-> h.description,
                                   recurrence |-> h.recurrence,
                                   creation_date |-> isoformat(h.creation_date),
                                   completion_date |-> h.completion_date,
                                   status |-> h.status]),
              !.habit_seq = @ + 1]

\* variant: an edited habit is active again
update_habit_reactivating(d, habit_id, name, description, recurrence) ==
    [d EXCEPT !.habit = [i \in 1..Len(@) |->
        IF @[i].id = habit_id
        THEN [@[i] EXCEPT !.name = name, !.description = description,
                          !.recurrence = recurrence, !.status = "active"]
        ELSE @[i]]]

update_habit(d, habit_id, name, description, recurrence) ==
    [d EXCEPT !.habit = [i \in 1..Len(@) |->
        IF @[i].id = habit_id
        THEN [@[i] EXCEPT !.name = name, !.description = description,
                          !.recurrence = recurrence]
        ELSE @[i]]]

delete_check_offs(d, habit_id) ==
    LET keep(c) == c.habit_id # habit_id
    IN [d EXCEPT !.checkoff = SelectSeq(@, keep)]

\* variant: only the row of table habit is deleted
delete_habit_keeping_checkoffs(d, habit_id) ==
    LET keeph(h) == h.id # habit_id
    IN [d EXCEPT !.habit = SelectSeq(@, keeph)]

delete_habit(d, habit_id) ==
    LET keepc(c) == c.habit_id # habit_id
        keeph(h) == h.id # habit_id
    IN [d EXCEPT !.checkoff = SelectSeq(@, keepc),
                 !.habit = SelectSeq(@, keeph)]

add_checkoff_entry(d, habit_id, checkoff_date) ==
    [d EXCEPT !.checkoff = Append(@, [habit_id |-> habit_id,
                                      checkoff_date |-> checkoff_date])]

\* completion_date defaults to the date the class body was executed
db_complete_habit(d, habit_id, completion_date) ==
    [d EXCEPT !.habit = [i \in 1..Len(@) |->
        IF @[i].id = habit_id
        THEN [@[i] EXCEPT !.completion_date = isoformat(completion_date),
                          !.status = "complete"]
        ELSE @[i]]]

fetch_all_habits(d) == d.habit

\* variant: the status of a habit is not looked at
fetch_all_active_habits_any_status(d) == d.habit

fetch_all_active_habits(d) ==
    LET active(h) == h.status = "active"
    IN SelectSeq(d.habit, active)

get_data_from_last_created_habit(d) == d.habit[Len(d.habit)]

HabitIds(d) == {d.habit[i].id : i \in 1..Len(d.habit)}

HabitById(d, habit_id) ==
    d.habit[CHOOSE i \in 1..Len(d.habit) : d.habit[i].id = habit_id]

get_recurrence(d, habit_id) ==
    IF habit_id \in HabitIds(d) THEN HabitById(d, habit_id).recurrence ELSE None

get_creation_date(d, habit_id) ==
    IF habit_id \in HabitIds(d) THEN HabitById(d, habit_id).creation_date ELSE None

\* SELECT checkoff_date FROM checkoff WHERE habit_id = ?  (rowid order)
CheckoffDates(d, habit_id) ==
    LET mine(c) == c.habit_id = habit_id
        rows == SelectSeq(d.checkoff, mine)
    IN [i \in 1..Len(rows) |-> rows[i].checkoff_date]

RECURSIVE InsertSorted(_, _)
InsertSorted(s, t) ==
    IF s = <<>> THEN <<t>>
    ELSE IF TextLT(t, Head(s)) THEN <<t>> \o s
    ELSE <<Head(s)>> \o InsertSorted(Tail(s), t)

\* ORDER BY checkoff_date
RECURSIVE OrderBy(_)
OrderBy(s) ==
    IF s = <<>> THEN <<>>
    ELSE InsertSorted(OrderBy(SubSeq(s, 1, Len(s) - 1)), s[Len(s)])

Reverse(s) == [i \in 1..Len(s) |-> s[Len(s) + 1 - i]]

\* ORDER BY checkoff_date DESC
OrderByDesc(s) == Reverse(OrderBy(s))

fetch_daily_checkoff_info(d, habit_id) == OrderBy(CheckoffDates(d, habit_id))

\* utc is datetime.now(timezone.utc).date()
is_habit_checked_off_today(d, habit_id, utc) ==
    \E i \in 1..Len(d.checkoff) :
        /\ d.checkoff[i].habit_id = habit_id
        /\ d.checkoff[i].checkoff_date = isoformat(utc)

is_habit_checked_off_this_week(d, habit_id, utc) ==
    LET start_of_week == utc - weekday(utc)
    IN \E i \in 1..Len(d.checkoff) :
        /\ d.checkoff[i].habit_id = habit_id
        /\ TextLE(isoformat(start_of_week), d.checkoff[i].checkoff_date)

\* variant: the end of the week is not tested
is_habit_checked_off_weekly_open_end(d, habit_id, period) ==
    LET start_of_week == fromisocalendar_monday(period)
    IN \E i \in 1..Len(d.checkoff) :
        /\ d.checkoff[i].habit_id = habit_id
        /\ TextLE(isoformat(start_of_week), d.checkoff[i].checkoff_date)

\* period is a tuple (year, week); checkoff_date BETWEEN ? AND ?
is_habit_checked_off_weekly(d, habit_id, period) ==
    LET start_of_week == fromisocalendar_monday(period)
        end_of_week == start_of_week + 6
    IN \E i \in 1..Len(d.checkoff) :
        /\ d.checkoff[i].habit_id = habit_id
        /\ TextLE(isoformat(start_of_week), d.checkoff[i].checkoff_date)
        /\ TextLE(d.checkoff[i].checkoff_date, isoformat(end_of_week))

is_habit_checked_off_given_day(d, habit_id, given_day) ==
    \E i \in 1..Len(d.checkoff) :
        /\ d.checkoff[i].habit_id = habit_id
        /\ d.checkoff[i].checkoff_date = isoformat(given_day)

-----------------------------------------------------------------------------
(* DatabaseManager, ANALYSIS section.  now is date.today().  A call either *)
(* returns a value or raises ValueError("Unsupported recurrence type").    *)

ValueError == [raised |-> TRUE, value |-> 0]

Return(v) == [raised |-> FALSE, value |-> v]

\* variant: a week is stepped over as one day
Increment_days(recurrence) == 1

Increment(recurrence) == IF recurrence = "Daily" THEN 1 ELSE 7

\* variant: an entry that is not a date ends the walk
RECURSIVE current_streak_loop_stopping(_, _, _)
current_streak_loop_stopping(checkoffs, current_date, increment) ==
    IF checkoffs = <<>> THEN 0
    ELSE LET text == split_T(Head(checkoffs))
         IN IF ~parses(text)
            THEN 0
            ELSE IF fromisoformat(text) = current_date
            THEN 1 + current_streak_loop_stopping(Tail(checkoffs), current_date - increment,
                                                  increment)
            ELSE 0

\* the for loop of get_current_streak over the rows not yet visited
RECURSIVE current_streak_loop(_, _, _)
current_streak_loop(checkoffs, current_date, increment) ==
    IF checkoffs = <<>> THEN 0
    ELSE LET text == split_T(Head(checkoffs))
         IN IF ~parses(text)
            THEN current_streak_loop(Tail(checkoffs), current_date, increment)
            ELSE IF fromisoformat(text) = current_date
            THEN 1 + current_streak_loop(Tail(checkoffs), current_date - increment, increment)
            ELSE 0

\* variant: the walk starts at the most recent check-off instead of today
get_current_streak_from_latest(d, habit_id, now) ==
    LET recurrence == get_recurrence(d, habit_id)
        checkoffs == OrderByDesc(CheckoffDates(d, habit_id))
        dated(t) == parses(split_T(t))
        start == IF SelectSeq(checkoffs, dated) = <<>> THEN now
                 ELSE fromisoformat(split_T(Head(SelectSeq(checkoffs, dated))))
    IN IF recurrence \notin {"Daily", "Weekly"}
       THEN ValueError
       ELSE Return(current_streak_loop(checkoffs, start, Increment(recurrence)))

get_current_streak(d, habit_id, now) ==
    LET recurrence == get_recurrence(d, habit_id)
        checkoffs == OrderByDesc(CheckoffDates(d, habit_id))
    IN IF recurrence \notin {"Daily", "Weekly"}
       THEN ValueError
       ELSE Return(current_streak_loop(checkoffs, now, Increment(recurrence)))

\* variant: the run still open at the end of the scan is not counted
RECURSIVE longest_streak_loop_no_final_max(_, _, _, _, _)
longest_streak_loop_no_final_max(checkoffs, recurrence, longest_streak, streak, previous_date) ==
    IF checkoffs = <<>> THEN Return(longest_streak)
    ELSE LET text == split_T(Head(checkoffs))
         IN IF ~parses(text)
            THEN longest_streak_loop_no_final_max(Tail(checkoffs), recurrence, longest_streak,
                                                  streak, previous_date)
            ELSE IF recurrence \notin {"Daily", "Weekly"}
            THEN ValueError
            ELSE LET checkoff_date == fromisoformat(text)
                 IN IF \/ previous_date = <<>>
                       \/ checkoff_date = previous_date[1] + Increment(recurrence)
                    THEN longest_streak_loop_no_final_max(Tail(checkoffs), recurrence,
                                                          longest_streak, streak + 1,
                                                          <<checkoff_date>>)
                    ELSE longest_streak_loop_no_final_max(Tail(checkoffs), recurrence,
                                                          Max2(longest_streak, streak),
                                                          1, <<checkoff_date>>)

\* variant: a broken run restarts at 0 instead of 1
RECURSIVE longest_streak_loop_restart_zero(_, _, _, _, _)
longest_streak_loop_restart_zero(checkoffs, recurrence, longest_streak, streak, previous_date) ==
    IF checkoffs = <<>> THEN Return(Max2(longest_streak, streak))
    ELSE LET text == split_T(Head(checkoffs))
         IN IF ~parses(text)
            THEN longest_streak_loop_restart_zero(Tail(checkoffs), recurrence, longest_streak,
                                                  streak, previous_date)
            ELSE IF recurrence \notin {"Daily", "Weekly"}
            THEN ValueError
            ELSE LET checkoff_date == fromisoformat(text)
                 IN IF \/ previous_date = <<>>
                       \/ checkoff_date = previous_date[1] + Increment(recurrence)
                    THEN longest_streak_loop_restart_zero(Tail(checkoffs), recurrence,
                                                          longest_streak, streak + 1,
                                                          <<checkoff_date>>)
                    ELSE longest_streak_loop_restart_zero(Tail(checkoffs), recurrence,
                                                          Max2(longest_streak, streak),
                                                          0, <<checkoff_date>>)

\* the for loop of get_longest_streak; previous_date is <<>> for None
RECURSIVE longest_streak_loop(_, _, _, _, _)
longest_streak_loop(checkoffs, recurrence, longest_streak, streak, previous_date) ==
    IF checkoffs = <<>> THEN Return(Max2(longest_streak, streak))
    ELSE LET text == split_T(Head(checkoffs))
         IN IF ~parses(text)
            THEN longest_streak_loop(Tail(checkoffs), recurrence, longest_streak,
                                     streak, previous_date)
            ELSE IF recurrence \notin {"Daily", "Weekly"}
            THEN ValueError
            ELSE LET checkoff_date == fromisoformat(text)
                 IN IF \/ previous_date = <<>>
                       \/ checkoff_date = previous_date[1] + Increment(recurrence)
                    THEN longest_streak_loop(Tail(checkoffs), recurrence, longest_streak,
                                             streak + 1, <<checkoff_date>>)
                    ELSE longest_streak_loop(Tail(checkoffs), recurrence,
                                             Max2(longest_streak, streak),
                                             1, <<checkoff_date>>)

get_longest_streak(d, habit_id) ==
    longest_streak_loop(OrderBy(CheckoffDates(d, habit_id)),
                        get_recurrence(d, habit_id), 0, 0, <<>>)

\* a percentage is the fraction num / den, den > 0
Fraction(n, m) == [num |-> n, den |-> m]

\* variant: the weeks since creation are rounded toward zero
get_habit_performance_truncating(d, habit_id, creation_date, now) ==
    LET recurrence == get_recurrence(d, habit_id)
        checked_off_count == Len(CheckoffDates(d, habit_id))
        days == now - fromisoformat(creation_date)
        total_days == IF recurrence = "Daily"
                      THEN days + 1
                      ELSE (IF days >= 0 THEN days \div 7 ELSE -((-days) \div 7)) + 1
    IN IF recurrence \notin {"Daily", "Weekly"}
       THEN ValueError
       ELSE Return(IF total_days > 0
                   THEN Fraction(checked_off_count * 100, total_days)
                   ELSE Fraction(0, 1))

get_habit_performance(d, habit_id, creation_date, now) ==
    LET recurrence == get_recurrence(d, habit_id)
        checked_off_count == Len(CheckoffDates(d, habit_id))
        habit_creation_date == fromisoformat(creation_date)
        total_days == IF recurrence = "Daily"
                      THEN (now - habit_creation_date) + 1
                      ELSE ((now - habit_creation_date) \div 7) + 1
    IN IF recurrence \notin {"Daily", "Weekly"}
       THEN ValueError
       ELSE Return(IF total_days > 0
                   THEN Fraction(checked_off_count * 100, total_days)
                   ELSE Fraction(0, 1))

-----------------------------------------------------------------------------
(* HabitManager.create_predefined_habits.  The windows of 180, 120 and 90  *)
(* days and the numbers of check-offs of the source are scaled down to a   *)
(* few days; the structure of the code is kept.                            *)

RECURSIVE sorted_dates(_, _, _, _)
sorted_dates(random_given_dates, streak_dates, lo, hi) ==
    IF lo > hi THEN <<>>
    ELSE (IF lo \in random_given_dates THEN <<lo>> ELSE <<>>)
         \o (IF lo \in streak_dates THEN <<lo>> ELSE <<>>)
         \o sorted_dates(random_given_dates, streak_dates, lo + 1, hi)

\* the set of lists generate_random_dates can return
generate_random_dates(start_date, end_date, num_dates, min_streak_length, given_recurrence) ==
    LET delta == end_date - start_date
        step == IF given_recurrence = "Weekly" THEN 7 ELSE 1
        available == IF given_recurrence = "Weekly" THEN (delta \div 7) + 1 ELSE delta + 1
        num == IF num_dates > available THEN available ELSE num_dates
        population == {start_date + step * i : i \in 0..(available - 1)}
        samples == {S \in SUBSET population : Cardinality(S) = Max2(0, num - min_streak_length)}
        starts == {start_date + step * i : i \in 0..(available - min_streak_length)}
    IN {sorted_dates(S, {streak_start + step * i : i \in 0..(min_streak_length - 1)},
                     start_date, end_date + step * min_streak_length)
            : S \in samples, streak_start \in starts}

six_months_ago(current_date) == current_date - 3

four_months_ago(current_date) == current_date - 2

three_months_ago(current_date) == current_date - 1

\* the five blocks "Habit 1" .. "Habit 5": the Habit saved and the arguments
\* of generate_random_dates (given_recurrence is never passed: "Daily")
PredefinedHabits(current_date) == <<
    [name |-> "Drink 1.5l of Water", description |-> "Keep Hydrated",
     recurrence |-> "Daily", creation_date |-> six_months_ago(current_date),
     num_dates |-> 3, min_streak_length |-> 2],
    [name |-> "Have a Siesta", description |-> "Reset the brain after work",
     recurrence |-> "Daily", creation_date |-> four_months_ago(current_date),
     num_dates |-> 2, min_streak_length |-> 1],
    [name |-> "Read a Book", description |-> "Remain intellectual",
     recurrence |-> "Weekly", creation_date |-> six_months_ago(current_date),
     num_dates |-> 2, min_streak_length |-> 2],
    [name |-> "Cook Special Meal", description |-> "Impress the family with new skills",
     recurrence |-> "Weekly", creation_date |-> three_months_ago(current_date),
     num_dates |-> 1, min_streak_length |-> 1],
    [name |-> "Run", description |-> "Go for daily run in the mountains",
     recurrence |-> "Daily", creation_date |-> six_months_ago(current_date),
     num_dates |-> 3, min_streak_length |-> 2] >>

\* for given_date in random_dates: add_checkoff_entry(habit_id, strftime)
RECURSIVE add_checkoff_entries(_, _, _)
add_checkoff_entries(d, habit_id, random_dates) ==
    IF random_dates = <<>> THEN d
    ELSE add_checkoff_entries(add_checkoff_entry(d, habit_id, strftime_Ymd(Head(random_dates))),
                              habit_id, Tail(random_dates))

\* one "Habit i" block: the databases it can leave
predefined_habit(d, p, current_date) ==
    LET d1 == save_habit(d, Habit(p.name, p.description, p.recurrence, p.creation_date))
        habit_id == get_data_from_last_created_habit(d1).id
    IN {add_checkoff_entries(d1, habit_id, random_dates) :
            random_dates \in generate_random_dates(six_months_ago(current_date), current_date,
                                                   p.num_dates, p.min_streak_length, "Daily")}

\* the blocks "Habit i" .. "Habit last" one after the other
RECURSIVE predefined_blocks(_, _, _, _)
predefined_blocks(d, i, last, current_date) ==
    IF i > last THEN {d}
    ELSE UNION {predefined_blocks(d1, i + 1, last, current_date) :
                    d1 \in predefined_habit(d, PredefinedHabits(current_date)[i], current_date)}

predefined_from(d, i, current_date) == predefined_blocks(d, i, NumPredefined, current_date)

create_predefined_habits(d, current_date) == predefined_from(d, 1, current_date)

-----------------------------------------------------------------------------
(* The program: main.run and the operations of the menus *)

Names == {"Exercise"}

Descriptions == {"Exercise daily"}

Recurrences == {"Daily", "Weekly"}

\* datetime.now(timezone.utc).date() when the local date is d
UtcDates(d) == {d - 1, d, d + 1}

Init ==
    /\ db = EmptyDB
    /\ today = FirstDay
    /\ import_date = FirstDay
    /\ running = FALSE
    /\ view = NoView

\* main.run: the modules are imported, the store is opened and, when it has
\* no habit, the predefined habits are created
run ==
    /\ ~running
    /\ running' = TRUE
    /\ import_date' = today
    /\ IF fetch_all_habits(db) = <<>>
       THEN /\ db.habit_seq + NumPredefined <= MaxHabitId
            /\ db' \in create_predefined_habits(db, today)
       ELSE UNCHANGED db
    /\ UNCHANGED <<today, view>>

\* "[4] Exit"
exit ==
    /\ running
    /\ running' = FALSE
    /\ UNCHANGED <<db, today, import_date, view>>

\* the calendar date advances
AdvanceDate ==
    /\ today < MaxDay
    /\ today' \in (today + 1)..MaxDay
    /\ UNCHANGED <<db, import_date, running, view>>

create_habit ==
    /\ running
    /\ db.habit_seq < MaxHabitId
    /\ \E name \in Names, description \in Descriptions, recurrence \in Recurrences :
          db' = save_habit(db, Habit(name, description, recurrence, import_date))
    /\ UNCHANGED <<today, import_date, running, view>>

\* check_off_habit while the store holds fewer than max_checkoffs check-offs
check_off(max_checkoffs) ==
    /\ running
    /\ LET habits == fetch_all_active_habits(db)
       IN /\ habits # <<>>
          /\ \E i \in 1..Len(habits), utc \in UtcDates(today) :
                LET habit_id == habits[i].id
                    recurrence == habits[i].recurrence
                    checked_off == IF recurrence = "Daily"
                                   THEN is_habit_checked_off_today(db, habit_id, utc)
                                   ELSE IF recurrence = "Weekly"
                                   THEN is_habit_checked_off_this_week(db, habit_id, utc)
                                   ELSE FALSE
                IN IF checked_off
                   THEN UNCHANGED db
                   ELSE /\ Len(db.checkoff) < max_checkoffs
                        /\ db' = add_checkoff_entry(db, habit_id, isoformat(today))
    /\ UNCHANGED <<today, import_date, running, view>>

check_off_habit == check_off(MaxCheckoffs)

edit_habit ==
    /\ running
    /\ LET habits == fetch_all_habits(db)
       IN /\ habits # <<>>
          \* the name and the description offered as defaults are kept
          /\ \E i \in 1..Len(habits), recurrence \in Recurrences :
                db' = update_habit(db, habits[i].id, habits[i].name,
                                   habits[i].description, recurrence)
    /\ UNCHANGED <<today, import_date, running, view>>

complete_habit ==
    /\ running
    /\ LET habits == fetch_all_active_habits(db)
       IN /\ habits # <<>>
          /\ \E i \in 1..Len(habits) :
                db' = db_complete_habit(db, habits[i].id, import_date)
    /\ UNCHANGED <<today, import_date, running, view>>

HM_delete_habit ==
    /\ running
    /\ LET habits == fetch_all_habits(db)
       IN /\ habits # <<>>
          /\ \E i \in 1..Len(habits) : db' = delete_habit(db, habits[i].id)
    /\ UNCHANGED <<today, import_date, running, view>>

Next ==
    \/ run
    \/ exit
    \/ AdvanceDate
    \/ create_habit
    \/ check_off_habit
    \/ edit_habit
    \/ complete_habit
    \/ HM_delete_habit

Spec == Init /\ [][Next]_vars

-----------------------------------------------------------------------------
(* The program used only to create habits and check them off, started on   *)
(* a store whose predefined habits have been deleted.                      *)

RECURSIVE delete_all_habits(_)
delete_all_habits(d) ==
    IF fetch_all_habits(d) = <<>> THEN d
    ELSE delete_all_habits(delete_habit(d, fetch_all_habits(d)[1].id))

InitCheckoffs ==
    /\ db \in {delete_all_habits(d) : d \in create_predefined_habits(EmptyDB, FirstDay)}
    /\ today = FirstDay
    /\ import_date = FirstDay
    /\ running = TRUE
    /\ view = NoView

NextCheckoffs ==
    \/ create_habit
    \/ check_off_habit
    \/ AdvanceDate

SpecCheckoffs == InitCheckoffs /\ [][NextCheckoffs]_vars

-----------------------------------------------------------------------------
(* The program after it has created the predefined habits, used to create, *)
(* check off, edit and complete habits.                                    *)

InitLifecycle ==
    /\ db \in create_predefined_habits(EmptyDB, FirstDay)
    /\ today = FirstDay
    /\ import_date = FirstDay
    /\ running = TRUE
    /\ view = NoView

NextLifecycle ==
    \/ create_habit
    \/ check_off_habit
    \/ edit_habit
    \/ complete_habit
    \/ AdvanceDate

SpecLifecycle == InitLifecycle /\ [][NextLifecycle]_vars

-----------------------------------------------------------------------------
(* The program started on an empty store: all five predefined habits are   *)
(* created.                                                                *)

\* main.run on the store of a first start
run_first_start ==
    /\ ~running
    /\ fetch_all_habits(db) = <<>>
    /\ running' = TRUE
    /\ import_date' = today
    /\ db' \in predefined_blocks(db, 1, Len(PredefinedHabits(today)), today)
    /\ UNCHANGED <<today, view>>

InitPredefined ==
    /\ db = EmptyDB
    /\ today = FirstDay
    /\ import_date = FirstDay
    /\ running = FALSE
    /\ view = NoView

NextPredefined == run_first_start

SpecPredefined == InitPredefined /\ [][NextPredefined]_vars

-----------------------------------------------------------------------------
(* The store used directly, as Test_Database.py does: a habit is saved     *)
(* with any recurrence text and creation date, and check-offs with any     *)
(* text are added to the habit saved last.                                 *)

StoreRecurrences == {"Daily", "Weekly", "Monthly"}

StoreCreationDates == {0, MaxDay + 1}

StoreFirstDay == MaxDay - 2

CheckoffTexts ==
    {isoformat(d) : d \in {MaxDay - 7} \cup ((MaxDay - 3)..MaxDay)}
        \cup {[day |-> MaxDay - 1, sfx |-> x] : x \in {1, 2}}

InitStore ==
    /\ db = EmptyDB
    /\ today = StoreFirstDay
    /\ import_date = StoreFirstDay
    /\ running = FALSE
    /\ view = NoView

Store_save_habit ==
    /\ db.habit_seq < MaxStoreHabits
    /\ \E name \in Names, description \in Descriptions, recurrence \in StoreRecurrences,
          creation_date \in StoreCreationDates :
          db' = save_habit(db, Habit(name, description, recurrence, creation_date))
    /\ UNCHANGED <<today, import_date, running, view>>

Store_add_checkoff_entry ==
    /\ fetch_all_habits(db) # <<>>
    /\ Len(db.checkoff) < MaxStoreCheckoffs
    /\ \E text \in CheckoffTexts :
          db' = add_checkoff_entry(db, get_data_from_last_created_habit(db).id, text)
    /\ UNCHANGED <<today, import_date, running, view>>

Store_delete_habit ==
    /\ \E habit_id \in HabitIds(db) : db' = delete_habit(db, habit_id)
    /\ UNCHANGED <<today, import_date, running, view>>

NextStore ==
    \/ Store_save_habit
    \/ Store_add_checkoff_entry
    \/ Store_delete_habit
    \/ AdvanceDate

SpecStore == InitStore /\ [][NextStore]_vars

-----------------------------------------------------------------------------
(* Test_Database.test_create_predefined_habits: habits are saved one after *)
(* the other on an empty store; view holds the list predefined_habits of   *)
(* the habits saved so far.                                                *)

MaxSaved == 4

\* the habits of the list predefined_habits of the test
TestHabits ==
    {Habit("Drink Water", "Stay hydrated", "Daily", FirstDay),
     Habit("Walk 10k Steps", "Achieve 10k steps in a day", "Daily", FirstDay),
     Habit("Weekly Meeting", "Attend the weekly meeting", "Weekly", FirstDay)}

InitSaved ==
    /\ db = EmptyDB
    /\ today = FirstDay
    /\ import_date = FirstDay
    /\ running = FALSE
    /\ view = [op |-> "test", predefined_habits |-> <<>>]

\* one turn of the loop "for habit in predefined_habits"
test_save_habit ==
    /\ Len(view.predefined_habits) < MaxSaved
    /\ \E habit \in TestHabits :
          /\ db' = save_habit(db, habit)
          /\ view' = [view EXCEPT !.predefined_habits = Append(@, habit)]
    /\ UNCHANGED <<today, import_date, running>>

NextSaved == test_save_habit

SpecSaved == InitSaved /\ [][NextSaved]_vars

-----------------------------------------------------------------------------
(* The store with several habits: habits are saved, check-offs are added   *)
(* to any habit of the store, and habits are deleted.                      *)

MaxDbHabits == 3
MaxDbCheckoffs == 3

InitDb ==
    /\ db = EmptyDB
    /\ today = FirstDay
    /\ import_date = FirstDay
    /\ running = FALSE
    /\ view = NoView

Db_save_habit ==
    /\ db.habit_seq < MaxDbHabits
    /\ \E name \in Names, description \in Descriptions, recurrence \in Recurrences :
          db' = save_habit(db, Habit(name, description, recurrence, import_date))
    /\ UNCHANGED <<today, import_date, running, view>>

Db_add_checkoff_entry ==
    /\ Len(db.checkoff) < MaxDbCheckoffs
    /\ \E habit_id \in HabitIds(db), checkoff_date \in {FirstDay, MaxDay} :
          db' = add_checkoff_entry(db, habit_id, isoformat(checkoff_date))
    /\ UNCHANGED <<today, import_date, running, view>>

Db_delete_habit ==
    /\ \E habit_id \in HabitIds(db) : db' = delete_habit(db, habit_id)
    /\ UNCHANGED <<today, import_date, running, view>>

NextDb ==
    \/ Db_save_habit
    \/ Db_add_checkoff_entry
    \/ Db_delete_habit

SpecDb == InitDb /\ [][NextDb]_vars

-----------------------------------------------------------------------------
(* HabitAnalyzer.view_habits_summary: the rank of a performance.  A        *)
(* percentage is a fraction (see Fraction); the keys of rank_mapping are   *)
(* visited in the order the dict literal lists them.                       *)

MaxPercent == 102
MaxDen == 2

\* variant: the keys read as ranges of whole percents, both ends included
rank_mapping_whole_percents == <<
    [lo |-> 100, hi |-> 101, label |-> "Outstanding"],
    [lo |-> 91, hi |-> 99, label |-> "Excellent"],
    [lo |-> 71, hi |-> 90, label |-> "Very Good"],
    [lo |-> 61, hi |-> 70, label |-> "Good"],
    [lo |-> 51, hi |-> 60, label |-> "Inconsistent"],
    [lo |-> 0, hi |-> 50, label |-> "Poor"] >>

rank_mapping == <<
    [lo |-> 100, hi |-> 101, label |-> "Outstanding"],
    [lo |-> 91, hi |-> 100, label |-> "Excellent"],
    [lo |-> 71, hi |-> 91, label |-> "Very Good"],
    [lo |-> 61, hi |-> 71, label |-> "Good"],
    [lo |-> 51, hi |-> 61, label |-> "Inconsistent"],
    [lo |-> 0, hi |-> 51, label |-> "Poor"] >>

\* range_key[0] <= habit_performance < range_key[1]
in_range(range_key, habit_performance) ==
    /\ range_key.lo * habit_performance.den <= habit_performance.num
    /\ habit_performance.num < range_key.hi * habit_performance.den

\* next((label for ... if ...), "Unknown"): the first key that matches
rank(habit_performance) ==
    LET matching == {i \in 1..Len(rank_mapping) :
                        in_range(rank_mapping[i], habit_performance)}
    IN IF matching = {} THEN "Unknown"
       ELSE rank_mapping[CHOOSE i \in matching : \A j \in matching : i <= j].label

Percentages == {Fraction(n, m) : n \in (-MaxDen)..(MaxPercent * MaxDen), m \in 1..MaxDen}

InitRank ==
    /\ db = EmptyDB
    /\ today = FirstDay
    /\ import_date = FirstDay
    /\ running = TRUE
    /\ view = NoView

\* the rank column of one row of the summary table
summary_rank ==
    /\ \E habit_performance \in Percentages :
          view' = [op |-> "rank", habit_performance |-> habit_performance,
                   rank |-> rank(habit_performance)]
    /\ UNCHANGED <<db, today, import_date, running>>

NextRank == summary_rank

SpecRank == InitRank /\ [][NextRank]_vars

-----------------------------------------------------------------------------
(* HabitAnalyzer.view_habit_monthly_performance: the bar chart of the      *)
(* check-offs of one habit per month.  plt.show() returns when the chart   *)
(* is closed; until then no other operation runs.                          *)

MaxMonthlyCheckoffs == 6

\* the count of a Daily / Weekly month that is 100 percent
daily_full == 31
weekly_full == 5

\* min(...) and max(...) of a list of dates
min_date(dates) == CHOOSE x \in {dates[i] : i \in 1..Len(dates)} :
                       \A i \in 1..Len(dates) : x <= dates[i]

max_date(dates) == CHOOSE x \in {dates[i] : i \in 1..Len(dates)} :
                       \A i \in 1..Len(dates) : x >= dates[i]

\* variant: the step of 32 days is not brought back to the first of the month
next_month_start_drifting(current) == current + 32

\* current += timedelta(days=32); current = current.replace(day=1)
next_month_start(current) == replace_day_1(current + 32)

\* the while loop "Fill in gaps": the month keys it visits
RECURSIVE fill_months(_, _)
fill_months(current, end_date) ==
    IF current <= end_date
    THEN {strftime_Ym(current)} \cup fill_months(next_month_start(current), end_date)
    ELSE {}

\* sorted(month_summary.keys())
RECURSIVE sorted_keys(_)
sorted_keys(keys) ==
    IF keys = {} THEN <<>>
    ELSE LET least == CHOOSE k \in keys : \A k2 \in keys : k <= k2
         IN <<least>> \o sorted_keys(keys \ {least})

\* the body of view_habit_monthly_performance once the habit has check-offs
monthly_performance(recurrence, checkoff_dates, now) ==
    IF \E i \in 1..Len(checkoff_dates) : ~parses(checkoff_dates[i])
    THEN [op |-> "monthly", raised |-> TRUE, recurrence |-> recurrence, now |-> now,
          dates |-> <<>>, months |-> <<>>]
    ELSE LET fixed_checkoff_dates ==
                 [i \in 1..Len(checkoff_dates) |-> fromisoformat(checkoff_dates[i])]
             start_date == min_date(fixed_checkoff_dates)
             end_date == max_date(fixed_checkoff_dates \o <<now>>)
             counted == {strftime_Ym(fixed_checkoff_dates[i]) :
                            i \in 1..Len(fixed_checkoff_dates)}
             month_summary(month_key) ==
                 Cardinality({i \in 1..Len(fixed_checkoff_dates) :
                                 strftime_Ym(fixed_checkoff_dates[i]) = month_key})
             sorted_months ==
                 sorted_keys(counted \cup fill_months(replace_day_1(start_date), end_date))
             performance(count) ==
                 IF recurrence = "Daily" THEN Fraction(count * 100, daily_full)
                 ELSE Fraction(count * 100, weekly_full)
         IN [op |-> "monthly", raised |-> FALSE, recurrence |-> recurrence, now |-> now,
             dates |-> fixed_checkoff_dates,
             months |-> [k \in 1..Len(sorted_months) |->
                           [month |-> sorted_months[k],
                            count |-> month_summary(sorted_months[k]),
                            performance |-> performance(month_summary(sorted_months[k]))]]]

view_habit_monthly_performance ==
    /\ running
    /\ view = NoView
    /\ LET habits == fetch_all_habits(db)
       IN /\ habits # <<>>
          /\ \E i \in 1..Len(habits) :
                LET checkoff_dates == fetch_daily_checkoff_info(db, habits[i].id)
                IN IF checkoff_dates = <<>>
                   THEN view' = NoView
                   ELSE view' = monthly_performance(habits[i].recurrence, checkoff_dates, today)
    /\ UNCHANGED <<db, today, import_date, running>>

\* the chart window is closed
close_view ==
    /\ view # NoView
    /\ view' = NoView
    /\ UNCHANGED <<db, today, import_date, running>>

\* the days on which the program is used: the Sunday 2023-10-01, the five
\* Mondays of October 2023, 2023-12-31 and 2024-01-01
MonthlyDays == {6, 7, 14, 21, 28, 35, 97, 98}

\* the calendar date advances to a later day of days
AdvanceTo(days) ==
    /\ \E d \in days : d > today /\ today' = d
    /\ UNCHANGED <<db, import_date, running, view>>

InitMonthly ==
    /\ db \in {delete_all_habits(d) : d \in create_predefined_habits(EmptyDB, 6)}
    /\ today = 6
    /\ import_date = 6
    /\ running = TRUE
    /\ view = NoView

NextMonthly ==
    \/ view = NoView /\ create_habit
    \/ view = NoView /\ check_off(MaxMonthlyCheckoffs)
    \/ view = NoView /\ AdvanceTo(MonthlyDays)
    \/ view_habit_monthly_performance
    \/ close_view

SpecMonthly == InitMonthly /\ [][NextMonthly]_vars

-----------------------------------------------------------------------------
(* HabitAnalyzer.view_checkoff_recent_activity: per period of the trailing *)
(* window, the active habits of the chosen recurrence that were and were   *)
(* not checked off.  An entry of a list is the name appended by the code   *)
(* together with the id of the habit it was appended for.                  *)

MaxActivityCheckoffs == 5

last_days == 14
last_weeks == 8

\* variant: the weeks of the window are stepped in days
tracked_period_weeks_in_days(recurrence_type, now) ==
    IF recurrence_type = "Daily"
    THEN [k \in 1..last_days |-> now - (last_days - k)]
    ELSE [k \in 1..last_weeks |-> isocalendar(now - (last_weeks - k))]

\* [today - timedelta(days=i) for i in range(13, -1, -1)], or
\* [(today - timedelta(weeks=i)).isocalendar()[:2] for i in range(7, -1, -1)]
tracked_period(recurrence_type, now) ==
    IF recurrence_type = "Daily"
    THEN [k \in 1..last_days |-> now - (last_days - k)]
    ELSE [k \in 1..last_weeks |-> isocalendar(now - 7 * (last_weeks - k))]

\* "if period >= habit_creation_date" / "if period >= habit_creation_week"
created_by(d, recurrence_type, habit, period) ==
    LET habit_creation_date == fromisoformat(get_creation_date(d, habit.id))
    IN IF recurrence_type = "Daily"
       THEN period >= habit_creation_date
       ELSE TupleGE(period, isocalendar(habit_creation_date))

is_checked_off(d, recurrence_type, habit, period) ==
    IF recurrence_type = "Daily"
    THEN is_habit_checked_off_given_day(d, habit.id, period)
    ELSE is_habit_checked_off_weekly(d, habit.id, period)

\* the lists checked_off (checked = TRUE) and not_checked_off of one period
period_list(d, recurrence_type, filtered_habits, period, checked) ==
    LET listed(habit) ==
            /\ created_by(d, recurrence_type, habit, period)
            /\ is_checked_off(d, recurrence_type, habit, period) = checked
        rows == SelectSeq(filtered_habits, listed)
    IN [i \in 1..Len(rows) |-> [id |-> rows[i].id, name |-> rows[i].name]]

recent_activity(d, recurrence_type, filtered_habits, now) ==
    LET periods == tracked_period(recurrence_type, now)
    IN [op |-> "activity", recurrence_type |-> recurrence_type, now |-> now,
        tracked_period |-> periods,
        checked_off_habits |->
            [k \in 1..Len(periods) |->
                period_list(d, recurrence_type, filtered_habits, periods[k], TRUE)],
        not_checked_off_habits |->
            [k \in 1..Len(periods) |->
                period_list(d, recurrence_type, filtered_habits, periods[k], FALSE)]]

view_checkoff_recent_activity ==
    /\ running
    /\ view = NoView
    /\ LET habits == fetch_all_active_habits(db)
       IN /\ habits # <<>>
          /\ \E recurrence_type \in {"Daily", "Weekly"} :
                LET wanted(habit) == habit.recurrence = recurrence_type
                    filtered_habits == SelectSeq(habits, wanted)
                IN IF filtered_habits = <<>>
                   THEN view' = NoView
                   ELSE view' = recent_activity(db, recurrence_type, filtered_habits, today)
    /\ UNCHANGED <<db, today, import_date, running>>

\* the days on which the program is used: Monday 2023-12-25, Sunday
\* 2023-12-31 and Monday 2024-01-01
ActivityDays == {91, 97, 98}

InitActivity ==
    /\ db = EmptyDB
    /\ today = 91
    /\ import_date = 91
    /\ running = FALSE
    /\ view = NoView

NextActivity ==
    \/ run
    \/ view = NoView /\ create_habit
    \/ view = NoView /\ check_off(MaxActivityCheckoffs)
    \/ view = NoView /\ complete_habit
    \/ view = NoView /\ AdvanceTo(ActivityDays)
    \/ view_checkoff_recent_activity
    \/ close_view

SpecActivity == InitActivity /\ [][NextActivity]_vars

-----------------------------------------------------------------------------
(* HabitAnalyzer.view_habits_summary and view_habit_streak_progress, and   *)
(* the program used to create habits, check them off and look at every     *)
(* table and chart of the Analyze menu.                                    *)

\* one row of data: the columns of the summary table of one habit
summary_row(d, habit, now, utc) ==
    LET habit_id == habit.id
        recurrence == habit.recurrence
        creation_date == get_creation_date(d, habit_id)
        current_streak == get_current_streak(d, habit_id, now)
        longest_streak == get_longest_streak(d, habit_id)
        habit_performance == get_habit_performance(d, habit_id, creation_date, now)
        checked_off == IF recurrence = "Daily"
                       THEN is_habit_checked_off_today(d, habit_id, utc)
                       ELSE is_habit_checked_off_this_week(d, habit_id, utc)
    IN [raised |-> current_streak.raised \/ longest_streak.raised
                       \/ habit_performance.raised,
        name |-> habit.name,
        recurrence |-> recurrence,
        creation_date |-> creation_date,
        status |-> habit.status,
        completion_date |-> habit.completion_date,
        check_off_status |-> IF checked_off THEN "Checked_Off" ELSE "Not Checked_Off",
        current_streak |-> current_streak.value,
        longest_streak |-> longest_streak.value,
        habit_performance |-> habit_performance.value,
        rank |-> IF habit_performance.raised THEN "Unknown"
                 ELSE rank(habit_performance.value)]

view_habits_summary ==
    /\ running
    /\ view = NoView
    /\ LET habits == fetch_all_habits(db)
       IN /\ habits # <<>>
          /\ \E utc \in UtcDates(today) :
                LET data == [i \in 1..Len(habits) |-> summary_row(db, habits[i], today, utc)]
                IN view' = [op |-> "summary",
                            raised |-> \E i \in 1..Len(data) : data[i].raised,
                            data |-> data]
    /\ UNCHANGED <<db, today, import_date, running>>

\* the for loop of view_habit_streak_progress over the dates not yet visited
RECURSIVE streak_series(_, _, _)
streak_series(full_date_range, checked, current_streak) ==
    IF full_date_range = <<>> THEN <<>>
    ELSE LET counted == IF Head(full_date_range) \in checked
                        THEN current_streak + 1
                        ELSE 0
         IN <<counted>> \o streak_series(Tail(full_date_range), checked, counted)

\* the body of view_habit_streak_progress once the habit has check-offs
streak_progress(habit_id, recurrence, checkoff_dates, now) ==
    IF \E i \in 1..Len(checkoff_dates) : ~parses(checkoff_dates[i])
    THEN [op |-> "streaks", raised |-> TRUE, habit_id |-> habit_id,
          full_date_range |-> <<>>, streaks |-> <<>>]
    ELSE LET fixed_checkoff_dates ==
                 [i \in 1..Len(checkoff_dates) |-> fromisoformat(checkoff_dates[i])]
             first == min_date(fixed_checkoff_dates)
             last == max_date(fixed_checkoff_dates)
             start_date == IF recurrence = "Weekly" THEN first - weekday(first) ELSE first
             end_date == IF recurrence = "Weekly"
                         THEN Max2(last - weekday(last), now - weekday(now))
                         ELSE Max2(last, now)
             full_date_range ==
                 IF recurrence = "Weekly"
                 THEN [i \in 1..(((end_date - start_date) \div 7) + 1) |->
                          start_date + 7 * (i - 1)]
                 ELSE [i \in 1..((end_date - start_date) + 1) |-> start_date + (i - 1)]
             checked ==
                 IF recurrence = "Weekly"
                 THEN {fixed_checkoff_dates[i] - weekday(fixed_checkoff_dates[i]) :
                          i \in 1..Len(fixed_checkoff_dates)}
                 ELSE {fixed_checkoff_dates[i] : i \in 1..Len(fixed_checkoff_dates)}
         IN [op |-> "streaks", raised |-> FALSE, habit_id |-> habit_id,
             full_date_range |-> full_date_range,
             streaks |-> streak_series(full_date_range, checked, 0)]

\* variant: the check-offs read for the chart are deleted from the store
view_habit_streak_progress_consuming ==
    /\ running
    /\ view = NoView
    /\ LET habits == fetch_all_habits(db)
       IN /\ habits # <<>>
          /\ \E i \in 1..Len(habits) :
                LET checkoff_dates == fetch_daily_checkoff_info(db, habits[i].id)
                IN IF checkoff_dates = <<>>
                   THEN view' = NoView /\ UNCHANGED db
                   ELSE /\ view' = streak_progress(habits[i].id, habits[i].recurrence,
                                                   checkoff_dates, today)
                        /\ db' = delete_check_offs(db, habits[i].id)
    /\ UNCHANGED <<today, import_date, running>>

view_habit_streak_progress ==
    /\ running
    /\ view = NoView
    /\ LET habits == fetch_all_habits(db)
       IN /\ habits # <<>>
          /\ \E i \in 1..Len(habits) :
                LET checkoff_dates == fetch_daily_checkoff_info(db, habits[i].id)
                IN IF checkoff_dates = <<>>
                   THEN view' = NoView
                   ELSE view' = streak_progress(habits[i].id, habits[i].recurrence,
                                                checkoff_dates, today)
    /\ UNCHANGED <<db, today, import_date, running>>

InitAnalyze ==
    /\ db \in {delete_all_habits(d) : d \in create_predefined_habits(EmptyDB, FirstDay)}
    /\ today = FirstDay
    /\ import_date = FirstDay
    /\ running = TRUE
    /\ view = NoView

NextAnalyze ==
    \/ view = NoView /\ create_habit
    \/ view = NoView /\ check_off_habit
    \/ view = NoView /\ AdvanceDate
    \/ view_habits_summary
    \/ view_habit_streak_progress
    \/ view_habit_monthly_performance
    \/ view_checkoff_recent_activity
    \/ close_view

SpecAnalyze == InitAnalyze /\ [][NextAnalyze]_vars

-----------------------------------------------------------------------------
TypeOK ==
    /\ today \in FirstDay..MaxDay
    /\ import_date \in FirstDay..today
    /\ running \in BOOLEAN
    /\ Len(db.habit) <= db.habit_seq

-----------------------------------------------------------------------------
(* Vocabulary of the properties: periods and the check-offs of a habit     *)

Habits == {db.habit[i] : i \in 1..Len(db.habit)}

TrackedHabits == {h \in Habits : h.recurrence \in {"Daily", "Weekly"}}

\* the period of day d: the day itself, or its ISO week
PeriodOf(recurrence, d) == IF recurrence = "Daily" THEN d ELSE isoweek(d)

CurrentPeriod(h) == PeriodOf(h.recurrence, today)

\* the entries of h that hold a date (perhaps followed by a time)
DatedEntries(h) ==
    LET entries == CheckoffDates(db, h.id)
    IN {i \in 1..Len(entries) : entries[i].sfx \in {0, 1}}

HasUnparseableEntry(h) ==
    LET entries == CheckoffDates(db, h.id)
    IN \E i \in 1..Len(entries) : entries[i].sfx = 2

EntryPeriod(h, i) == PeriodOf(h.recurrence, CheckoffDates(db, h.id)[i].day)

CheckedPeriods(h) == {EntryPeriod(h, i) : i \in DatedEntries(h)}

Covered(h, p) == p \in CheckedPeriods(h)

OnePerPeriod(h) ==
    \A i, j \in DatedEntries(h) : i # j => EntryPeriod(h, i) # EntryPeriod(h, j)

\* length of the longest run of consecutive numbers in the finite set S
RunFrom(S, p, k) == \A j \in 0..(k - 1) : p + j \in S

LongestRun(S) ==
    IF S = {} THEN 0
    ELSE CHOOSE k \in 1..Cardinality(S) :
            /\ \E p \in S : RunFrom(S, p, k)
            /\ \A k2 \in (k + 1)..Cardinality(S) : ~ \E p \in S : RunFrom(S, p, k2)

\* number of consecutive checked periods ending with the current one
RecentRun(h, k) ==
    /\ \A j \in 0..(k - 1) : Covered(h, CurrentPeriod(h) - j)
    /\ ~Covered(h, CurrentPeriod(h) - k)

CurrentStreak(h) == get_current_streak(db, h.id, today)

LongestStreak(h) == get_longest_streak(db, h.id)

Performance(h) == get_habit_performance(db, h.id, h.creation_date, today)

-----------------------------------------------------------------------------
\* C1: a habit whose check-offs cover each of the k most recent periods (days,
\* or ISO weeks on any weekday) and not the period before them has a current
\* streak of k.
C1_CurrentStreakIsRecentRun ==
    \A h \in TrackedHabits : \A k \in 1..(MaxCheckoffs + MaxStoreCheckoffs) :
        RecentRun(h, k) => CurrentStreak(h) = Return(k)

\* C2: the longest streak of a habit is never below its current streak,
\* whatever duplicates and unparseable entries its history holds.
C2_LongestAtLeastCurrent ==
    \A h \in TrackedHabits :
        /\ ~LongestStreak(h).raised
        /\ ~CurrentStreak(h).raised
        /\ LongestStreak(h).value >= CurrentStreak(h).value

C2_Witness ==
    \E h \in TrackedHabits :
        /\ CurrentStreak(h).value >= 1
        /\ ~OnePerPeriod(h)
        /\ HasUnparseableEntry(h)

\* C3: for a Weekly habit with at most one check-off per ISO week the longest
\* streak is the longest run of consecutive checked ISO weeks.
C3_WeeklyLongestIsLongestWeekRun ==
    \A h \in TrackedHabits :
        (h.recurrence = "Weekly" /\ OnePerPeriod(h))
            => LongestStreak(h) = Return(LongestRun(CheckedPeriods(h)))

\* C4: for a Daily habit with at most one check-off per day the longest streak
\* is the longest run of consecutive checked days, 0 for an empty history.
C4_DailyLongestIsLongestDayRun ==
    \A h \in TrackedHabits :
        (h.recurrence = "Daily" /\ OnePerPeriod(h))
            => LongestStreak(h) = Return(LongestRun(CheckedPeriods(h)))

C4_Witness ==
    \E h \in TrackedHabits :
        /\ h.recurrence = "Daily"
        /\ OnePerPeriod(h)
        /\ Cardinality(CheckedPeriods(h)) = 3
        /\ LongestRun(CheckedPeriods(h)) = 2
        /\ LongestStreak(h) = Return(2)

\* C5 (as stated): a habit with no check-off in the period before the
\* current one has a current streak of 0, also when the current period is
\* checked off.
C5_GapBeforeCurrentGivesZero ==
    \A h \in TrackedHabits :
        ~Covered(h, CurrentPeriod(h) - 1) => CurrentStreak(h) = Return(0)

\* C5 (amended): a habit with no check-off in the period before the current
\* one has a current streak of at most 1, and of 0 when the current period
\* has no check-off either.
C5_GapBeforeCurrentGivesAtMostOne ==
    \A h \in TrackedHabits :
        ~Covered(h, CurrentPeriod(h) - 1) =>
            /\ ~CurrentStreak(h).raised
            /\ CurrentStreak(h).value <= 1
            /\ ~Covered(h, CurrentPeriod(h)) => CurrentStreak(h).value = 0

C5_Witness ==
    \E h \in TrackedHabits :
        /\ ~Covered(h, CurrentPeriod(h) - 1)
        /\ Covered(h, CurrentPeriod(h))
        /\ Covered(h, CurrentPeriod(h) - 2)
        /\ CurrentStreak(h) = Return(1)

\* C6: a habit with no check-off in today's period has a current streak of
\* 0, however long its most recent run of check-offs is.
C6_NoCheckoffNowGivesZero ==
    \A h \in TrackedHabits :
        ~Covered(h, CurrentPeriod(h)) => CurrentStreak(h) = Return(0)

C6_Witness ==
    \E h \in TrackedHabits :
        /\ ~Covered(h, CurrentPeriod(h))
        /\ Covered(h, CurrentPeriod(h) - 1)
        /\ Covered(h, CurrentPeriod(h) - 2)
        /\ LongestStreak(h).value >= 2
        /\ CurrentStreak(h) = Return(0)

\* floor(x / 7), stated by its defining inequality
Floor7(x) == CHOOSE q \in -(MaxDay + 8)..(MaxDay + 8) : 7 * q <= x /\ x < 7 * q + 7

TotalPeriods(h) ==
    IF h.recurrence = "Daily"
    THEN (today - h.creation_date.day) + 1
    ELSE Floor7(today - h.creation_date.day) + 1

\* C7: the performance is checkoff_count / total_periods * 100, with
\* total_periods = days + 1 (Daily) or floor(days / 7) + 1 (Weekly), and 0
\* when total_periods <= 0.
C7_PerformanceFormula ==
    \A h \in TrackedHabits :
        LET p == Performance(h)
            n == Len(CheckoffDates(db, h.id))
        IN /\ ~p.raised
           /\ p.value.den > 0
           /\ IF TotalPeriods(h) > 0
              THEN p.value.num * TotalPeriods(h) = n * 100 * p.value.den
              ELSE p.value.num = 0

C7_Witness ==
    \E h \in TrackedHabits :
        /\ h.recurrence = "Weekly"
        /\ h.creation_date.day > today
        /\ Len(CheckoffDates(db, h.id)) >= 1
        /\ TotalPeriods(h) <= 0
        /\ Performance(h).value.num = 0

\* C8: while no habit holds two check-offs in one period, the performance
\* of every habit lies within [0, 100].
C8_PerformanceWithinBounds ==
    (\A g \in TrackedHabits : OnePerPeriod(g)) =>
        \A h \in TrackedHabits :
            /\ Performance(h).value.num >= 0
            /\ Performance(h).value.num <= 100 * Performance(h).value.den

\* C9: every habit holds at most one check-off per period of its recurrence
\* (calendar day for Daily, ISO week for Weekly).
C9_OneCheckoffPerPeriod == \A h \in TrackedHabits : OnePerPeriod(h)

\* C10: after edit_habit changes the recurrence of a habit, that habit has
\* no check-offs.
C10_RecurrenceChangeResetsHistory ==
    [][\A i \in 1..Len(db.habit) : \A j \in 1..Len(db'.habit) :
          (db.habit[i].id = db'.habit[j].id
              /\ db.habit[i].recurrence # db'.habit[j].recurrence)
            => CheckoffDates(db', db'.habit[j].id) = <<>>]_vars

-----------------------------------------------------------------------------
(* The rank of a percentage *)

\* lo <= p < hi for whole numbers lo, hi
Within(p, lo, hi) == lo * p.den <= p.num /\ p.num < hi * p.den

CanonicalRank(p) ==
    IF Within(p, 100, 101) THEN "Outstanding"
    ELSE IF Within(p, 91, 100) THEN "Excellent"
    ELSE IF Within(p, 70, 91) THEN "Very Good"
    ELSE IF Within(p, 60, 70) THEN "Good"
    ELSE IF Within(p, 40, 60) THEN "Inconsistent"
    ELSE IF Within(p, 0, 40) THEN "Poor"
    ELSE "Unknown"

\* C11: the rank given to a percentage p follows the canonical table:
\* Outstanding [100,101), Excellent [91,100), Very Good [70,91), Good [60,70),
\* Inconsistent [40,60), Poor [0,40).
C11_RankFollowsCanonicalTable ==
    view.op = "rank" =>
        (Within(view.habit_performance, 0, 101)
            => view.rank = CanonicalRank(view.habit_performance))

\* C12: every percentage p with 0 <= p < 101 gets a label other than Unknown,
\* and Unknown is the rank exactly of p < 0 and of p >= 101.
C12_RankTotalOnRange ==
    view.op = "rank" =>
        (view.rank = "Unknown" <=> ~Within(view.habit_performance, 0, 101))

C12_Witness ==
    /\ view.op = "rank"
    /\ view.habit_performance.num * 2 = 101 * view.habit_performance.den
    /\ view.rank = "Poor"

-----------------------------------------------------------------------------
(* The monthly series of a habit *)

DaysInMonth(m) == first_days[m + 1] - first_days[m]

\* the periods a month can hold: its days (those reached so far in the
\* current month), or (days_in_month + first_weekday_offset) // 7 + 1 weeks
ExpectedPeriods(recurrence, m, now) ==
    IF recurrence = "Daily"
    THEN (IF m = strftime_Ym(now) THEN now - first_days[m] + 1 ELSE DaysInMonth(m))
    ELSE ((DaysInMonth(m) + weekday(first_days[m])) \div 7) + 1

MonthlyShown == view.op = "monthly" /\ ~view.raised

\* the check-offs charted are at most one per period of the habit
ViewOnePerPeriod ==
    \A i, j \in 1..Len(view.dates) :
        i # j => PeriodOf(view.recurrence, view.dates[i]) # PeriodOf(view.recurrence, view.dates[j])

\* C13: the percentage of every month of the series is
\* count / expected_periods * 100, expected_periods being the days of the
\* month (the day of month reached, in the current month) for Daily and
\* (days_in_month + first_weekday_offset) // 7 + 1 for Weekly.
C13_MonthlyPercentageFormula ==
    MonthlyShown =>
        \A k \in 1..Len(view.months) :
            LET e == view.months[k]
            IN e.performance.num * ExpectedPeriods(view.recurrence, e.month, view.now)
                   = e.count * 100 * e.performance.den

\* C14: the series has exactly one entry for each month from the month of
\* the earliest check-off through the current month, in ascending order, each
\* with the number of check-offs of that month.
C14_MonthSeriesIsContiguous ==
    MonthlyShown =>
        LET first == strftime_Ym(min_date(view.dates))
            last == strftime_Ym(view.now)
        IN /\ Len(view.months) = last - first + 1
           /\ \A k \in 1..Len(view.months) :
                 /\ view.months[k].month = first + k - 1
                 /\ view.months[k].count =
                        Cardinality({i \in 1..Len(view.dates) :
                                        strftime_Ym(view.dates[i]) = first + k - 1})

C14_Witness ==
    /\ MonthlyShown
    /\ Len(view.months) = 4
    /\ view.months[1].count >= 1
    /\ view.months[2].count = 0
    /\ view.months[3].count >= 1
    /\ view.months[4].count = 0

\* C15: for a habit with at most one check-off per period, every monthly
\* percentage lies within [0, 100].
C15_MonthlyPercentageWithinBounds ==
    (MonthlyShown /\ ViewOnePerPeriod) =>
        \A k \in 1..Len(view.months) :
            /\ view.months[k].performance.num >= 0
            /\ view.months[k].performance.num <= 100 * view.months[k].performance.den

-----------------------------------------------------------------------------
(* The recent activity of the habits of one recurrence *)

ActivityShown == view.op = "activity"

WindowLength == IF view.recurrence_type = "Daily" THEN 14 ELSE 8

\* the k-th period of the trailing window: a day, or a week counted from
\* the week of day 0
WindowPeriod(k) ==
    PeriodOf(view.recurrence_type, view.now) - (WindowLength - k)

CreationPeriod(h) == PeriodOf(view.recurrence_type, h.creation_date.day)

Eligible(h, k) == CreationPeriod(h) <= WindowPeriod(k)

ListedIn(list, h) == {i \in 1..Len(list) : list[i].id = h.id}

Selected == {h \in Habits : h.recurrence = view.recurrence_type}

\* C16 (as stated): for every period of the window the two counts add up to
\* the number of habits in the store with the selected recurrence created in
\* or before that period, and no habit is in both lists.
C16_CountsSumToEligibleHabits ==
    ActivityShown =>
        \A k \in 1..Len(view.tracked_period) :
            /\ Len(view.checked_off_habits[k]) + Len(view.not_checked_off_habits[k])
                   = Cardinality({h \in Selected : Eligible(h, k)})
            /\ \A h \in Habits :
                   \/ ListedIn(view.checked_off_habits[k], h) = {}
                   \/ ListedIn(view.not_checked_off_habits[k], h) = {}

\* C16 (amended): for every period of the window the two counts add up to
\* the number of active habits with the selected recurrence created in or
\* before that period, and no habit is in both lists.
C16_CountsSumToEligibleActiveHabits ==
    ActivityShown =>
        \A k \in 1..Len(view.tracked_period) :
            /\ Len(view.checked_off_habits[k]) + Len(view.not_checked_off_habits[k])
                   = Cardinality({h \in Selected : h.status = "active" /\ Eligible(h, k)})
            /\ \A h \in Habits :
                   \/ ListedIn(view.checked_off_habits[k], h) = {}
                   \/ ListedIn(view.not_checked_off_habits[k], h) = {}

C16_Witness ==
    /\ ActivityShown
    /\ \E h \in Selected : h.status # "active"
    /\ \E k \in 1..Len(view.tracked_period) :
          /\ Len(view.checked_off_habits[k]) = 1
          /\ Len(view.not_checked_off_habits[k]) = 0
          /\ Cardinality({h \in Selected : Eligible(h, k)}) = 2
    /\ \E k \in 1..Len(view.tracked_period) :
          /\ Len(view.checked_off_habits[k]) = 0
          /\ Len(view.not_checked_off_habits[k]) = 1

\* C17: a habit is in neither list of a window period earlier than its
\* creation period, and an active habit of the selected recurrence is in
\* exactly one of the two lists of every window period from its creation
\* period on.
C17_ListedFromCreationPeriodOn ==
    ActivityShown =>
        \A k \in 1..Len(view.tracked_period) : \A h \in Habits :
            LET listed == Cardinality(ListedIn(view.checked_off_habits[k], h))
                              + Cardinality(ListedIn(view.not_checked_off_habits[k], h))
            IN /\ ~Eligible(h, k) => listed = 0
               /\ (h \in Selected /\ h.status = "active" /\ Eligible(h, k)) => listed = 1

\* a Weekly habit created in the last ISO week of 2023, seen from 2024
C17_Witness ==
    /\ ActivityShown
    /\ view.recurrence_type = "Weekly"
    /\ view.now >= 98
    /\ \E h \in Selected :
          /\ h.status = "active"
          /\ h.creation_date.day \in 91..97
          /\ ListedIn(view.checked_off_habits[Len(view.tracked_period) - 2], h) = {}
          /\ ListedIn(view.not_checked_off_habits[Len(view.tracked_period) - 2], h) = {}
          /\ ListedIn(view.checked_off_habits[Len(view.tracked_period) - 1], h) # {}
          /\ ListedIn(view.not_checked_off_habits[Len(view.tracked_period)], h) # {}

\* ISO 8601: the years 2023 and 2024 have 52 weeks each; the Monday of a week
IsoSucc(p) == IF p[2] < 52 THEN <<p[1], p[2] + 1>> ELSE <<p[1] + 1, 1>>

MondayOf(p) == 7 * ((p[1] - 2023) * 52 + p[2] - 39)

\* C18: the window is the 14 consecutive days ending today (Daily), or 8
\* distinct consecutive ISO (year, week) pairs ending with the ISO week that
\* contains today (Weekly), in ascending order.
C18_WindowIsTrailingPeriods ==
    ActivityShown =>
        LET w == view.tracked_period
        IN IF view.recurrence_type = "Daily"
           THEN /\ Len(w) = 14
                /\ w[14] = view.now
                /\ \A k \in 1..13 : w[k + 1] = w[k] + 1
           ELSE /\ Len(w) = 8
                /\ MondayOf(w[8]) <= view.now /\ view.now <= MondayOf(w[8]) + 6
                /\ \A k \in 1..7 : w[k + 1] = IsoSucc(w[k])
                /\ \A j, k \in 1..8 : j # k => w[j] # w[k]

C18_Witness ==
    /\ ActivityShown
    /\ view.recurrence_type = "Weekly"
    /\ view.tracked_period[1] = <<2023, 46>>
    /\ view.tracked_period[7] = <<2023, 52>>
    /\ view.tracked_period[8] = <<2024, 1>>

-----------------------------------------------------------------------------
(* The period queries of the store *)

\* the days and the ISO weeks asked about: 2023-W51 .. 2024-W01
QueryDays == 84..104

QueryWeeks == {<<2023, 51>>, <<2023, 52>>, <<2024, 1>>}

\* h has a check-off dated one of the days lo .. hi
CheckedWithin(h, lo, hi) ==
    \E i \in DatedEntries(h) :
        lo <= CheckoffDates(db, h.id)[i].day /\ CheckoffDates(db, h.id)[i].day <= hi

\* C19: is_habit_checked_off_given_day(h, d) is true iff h has a check-off
\* dated d, and is_habit_checked_off_weekly(h, (year, week)) is true iff h has
\* a check-off dated from the Monday through the Sunday of that ISO week.
C19_PeriodQueriesAgreeWithPeriods ==
    \A h \in Habits :
        /\ \A d \in QueryDays :
              is_habit_checked_off_given_day(db, h.id, d) <=> CheckedWithin(h, d, d)
        /\ \A p \in QueryWeeks :
              is_habit_checked_off_weekly(db, h.id, p)
                  <=> CheckedWithin(h, MondayOf(p), MondayOf(p) + 6)

\* a check-off on Sunday 2023-12-31 and none in the week of 2024-01-01
C19_Witness ==
    \E h \in Habits :
        /\ is_habit_checked_off_given_day(db, h.id, 97)
        /\ ~CheckedWithin(h, 91, 96)
        /\ is_habit_checked_off_weekly(db, h.id, <<2023, 52>>)
        /\ ~is_habit_checked_off_weekly(db, h.id, <<2024, 1>>)
        /\ ~is_habit_checked_off_weekly(db, h.id, <<2023, 51>>)

-----------------------------------------------------------------------------
\* C20: for a habit whose recurrence is neither Daily nor Weekly,
\* get_current_streak, get_longest_streak and get_habit_performance each raise
\* the unsupported-recurrence error and return no value, whatever its
\* check-offs (none, or unparseable ones only).
C20_UnsupportedRecurrenceRaises ==
    \A h \in Habits \ TrackedHabits :
        /\ CurrentStreak(h).raised
        /\ LongestStreak(h).raised
        /\ Performance(h).raised

-----------------------------------------------------------------------------
(* Unparseable check-off entries *)

\* the store without the check-off entries that hold no date
WithoutUnparseable(d) ==
    LET dated(c) == parses(split_T(c.checkoff_date))
    IN [d EXCEPT !.checkoff = SelectSeq(@, dated)]

\* C21: get_current_streak and get_longest_streak return what they return on
\* the history with every unparseable entry removed.
C21_UnparseableEntriesAreTransparent ==
    \A h \in Habits :
        HasUnparseableEntry(h) =>
            /\ get_current_streak(db, h.id, today)
                   = get_current_streak(WithoutUnparseable(db), h.id, today)
            /\ get_longest_streak(db, h.id)
                   = get_longest_streak(WithoutUnparseable(db), h.id)

\* an unparseable entry sorted between the check-offs of today and yesterday
C21_Witness ==
    \E h \in TrackedHabits :
        /\ h.recurrence = "Daily"
        /\ HasUnparseableEntry(h)
        /\ today = MaxDay
        /\ CurrentStreak(h) = Return(2)
        /\ LongestStreak(h) = Return(2)

-----------------------------------------------------------------------------
(* The Analyze menu *)

\* C22: the analytics operations leave the habit table and the check-off
\* table unchanged: a step that puts a summary table or a chart on the
\* screen, computed with get_current_streak, get_longest_streak and
\* get_habit_performance, changes nothing in the store.
C22_AnalyticsLeaveStoreUnchanged ==
    [][(view' # view /\ view' # NoView) => db' = db]_vars

\* a streak chart of a habit with check-offs is on the screen
C22_Witness ==
    /\ view.op = "streaks"
    /\ ~view.raised
    /\ Len(view.streaks) >= 2
    /\ CheckoffDates(db, view.habit_id) # <<>>

-----------------------------------------------------------------------------
(* Saving habits *)

\* C23: after save_habit is applied to habits h1..hn in that order on an
\* empty store, fetch_all_habits returns exactly n rows, in save order, whose
\* name, description and recurrence are those of h1..hn.
C23_FetchReturnsHabitsInSaveOrder ==
    view.op = "test" =>
        LET saved_habits == fetch_all_habits(db)
            predefined_habits == view.predefined_habits
        IN /\ Len(saved_habits) = Len(predefined_habits)
           /\ \A i \in 1..Len(predefined_habits) :
                 /\ saved_habits[i].name = predefined_habits[i].name
                 /\ saved_habits[i].description = predefined_habits[i].description
                 /\ saved_habits[i].recurrence = predefined_habits[i].recurrence

\* the three habits of the test have been saved in the order of the test
C23_Witness ==
    /\ view.op = "test"
    /\ Len(view.predefined_habits) = 3
    /\ view.predefined_habits[1].name = "Drink Water"
    /\ view.predefined_habits[2].name = "Walk 10k Steps"
    /\ view.predefined_habits[3].name = "Weekly Meeting"
    /\ fetch_all_habits(db)[3].name = "Weekly Meeting"

-----------------------------------------------------------------------------
(* Checking off *)

\* C24: check_off_habit inserts nothing for a habit that already has a
\* check-off in the current period (today for Daily, the current ISO week
\* for Weekly), whatever the UTC date is at the time of the call; a check-off
\* it inserts is dated today.  Every step that adds a check-off adds it, dated
\* today, to a habit without a check-off in its current period.
C24_CheckOffOncePerPeriod ==
    [][Len(db'.checkoff) = Len(db.checkoff) + 1 =>
          LET new == db'.checkoff[Len(db'.checkoff)]
              h == HabitById(db, new.habit_id)
          IN /\ new.checkoff_date = isoformat(today)
             /\ ~Covered(h, CurrentPeriod(h))]_vars

-----------------------------------------------------------------------------
(* The summary table and the streak chart *)

\* C25: in every row produced by view_habits_summary the Check_off Status is
\* 'Checked_Off' if and only if the Current Streak of the row is at least 1.
C25_CheckedOffIffCurrentStreak ==
    (view.op = "summary" /\ ~view.raised) =>
        \A i \in 1..Len(view.data) :
            (view.data[i].check_off_status = "Checked_Off")
                <=> (view.data[i].current_streak >= 1)

\* the greatest value of a series of numbers that is not empty
MaxOf(series) ==
    CHOOSE x \in {series[i] : i \in 1..Len(series)} :
        \A i \in 1..Len(series) : x >= series[i]

\* C26: for every habit with at least one check-off the streak series of
\* view_habit_streak_progress agrees with the summary figures: its maximum
\* equals get_longest_streak and its last value, the entry of today's period,
\* equals get_current_streak, for Daily and Weekly habits.
C26_StreakSeriesAgreesWithSummary ==
    (view.op = "streaks" /\ ~view.raised) =>
        /\ Return(MaxOf(view.streaks)) = get_longest_streak(db, view.habit_id)
        /\ Return(view.streaks[Len(view.streaks)])
               = get_current_streak(db, view.habit_id, today)

-----------------------------------------------------------------------------
(* Completed habits *)

\* C27: once complete_habit has been applied to a habit, its status stays
\* 'complete' and its check-offs never grow again, whatever is done later:
\* in every step a habit that is complete and still stored stays complete
\* and has no more check-offs than before.
C27_CompleteHabitStaysComplete ==
    [][\A i \in 1..Len(db.habit) :
          (db.habit[i].status = "complete" /\ db.habit[i].id \in HabitIds(db')) =>
              /\ HabitById(db', db.habit[i].id).status = "complete"
              /\ Len(CheckoffDates(db', db.habit[i].id))
                     <= Len(CheckoffDates(db, db.habit[i].id))]_vars

\* the predefined Daily habit was completed and edited to Weekly, and on a
\* later day another habit was checked off
C27_Witness ==
    \E h, g \in Habits :
        /\ h.id = 1
        /\ h.status = "complete"
        /\ h.recurrence = "Weekly"
        /\ CheckoffDates(db, h.id) # <<>>
        /\ g.status = "active"
        /\ today > fromisoformat(h.completion_date)
        /\ \E k \in 1..Len(CheckoffDates(db, g.id)) :
              CheckoffDates(db, g.id)[k] = isoformat(today)

-----------------------------------------------------------------------------
(* Creation date *)

\* C28: a habit created by create_habit is stored with the calendar date on
\* which create_habit runs as its creation_date, also when the date has
\* advanced since the program was started.
C28_CreationDateIsDayOfCreation ==
    [][Len(db'.habit) = Len(db.habit) + 1 =>
          db'.habit[Len(db'.habit)].creation_date = isoformat(today)]_vars

-----------------------------------------------------------------------------
(* Predefined habits *)

\* C29: after create_predefined_habits, whatever dates were drawn,
\* get_longest_streak of each of the five predefined habits is at least the
\* min_streak_length the habit was generated with.
C29_PredefinedStreakAtLeastMinimum ==
    running =>
        \A i \in 1..Len(db.habit) :
            /\ ~get_longest_streak(db, db.habit[i].id).raised
            /\ get_longest_streak(db, db.habit[i].id).value
                   >= PredefinedHabits(import_date)[i].min_streak_length

-----------------------------------------------------------------------------
(* Deleting habits *)

\* C30: delete_habit removes a habit with all its check-offs and leaves
\* every other habit and its check-offs unchanged, so that after any
\* sequence of save_habit, add_checkoff_entry on existing habits and
\* delete_habit every check-off row references a stored habit and a habit
\* created later starts without check-offs.
C30_DeleteRemovesHabitWithCheckoffs ==
    [][/\ \A k \in 1..Len(db'.checkoff) : db'.checkoff[k].habit_id \in HabitIds(db')
       /\ (HabitIds(db) \ HabitIds(db') # {}) =>
              \A other \in HabitIds(db') :
                  /\ other \in HabitIds(db)
                  /\ HabitById(db', other) = HabitById(db, other)
                  /\ CheckoffDates(db', other) = CheckoffDates(db, other)
       /\ \A created \in HabitIds(db') \ HabitIds(db) :
              CheckoffDates(db', created) = <<>>]_vars

\* the second of three habits has been deleted, the other two have their
\* check-offs
C30_Witness ==
    /\ db.habit_seq = 3
    /\ HabitIds(db) = {1, 3}
    /\ CheckoffDates(db, 1) # <<>>
    /\ CheckoffDates(db, 3) # <<>>

====
